---- MODULE Spec2Model ----
(***************************************************************************)
(* pys3server: the S3 protocol router (server.py), its SigV4 verifier      *)
(* (signature_v4.py), the backend capability interface                    *)
(* (base_interface.py) and the in-memory backend of the test suite         *)
(* (test/conftest.py), as a state machine.                                 *)
(*                                                                         *)
(* A request is handled by one handler task; every action below is one    *)
(* step of a handler, cut at the places where the handler awaits.          *)
(* HMAC-SHA256, SHA-256 and MD5 are ideal (injective, symbolic) functions. *)
(* The backend methods are bound to the router's calls by the arguments    *)
(* they share (bucket, object name, part number).                          *)
(***************************************************************************)
EXTENDS Integers, Sequences, FiniteSets, TLC

VARIABLES
    h,          \* handler task -> the task's local state (request, pc, locals)
    buckets,    \* InMemoryInterface._buckets (the names)
    objects,    \* InMemoryInterface._objects: <<bucket, key>> -> file
    uploads,    \* InMemoryInterface._multipart_uploads: <<bucket, key>> -> SparseList
    issued,     \* history: the upload ids the router has handed out
    mp,         \* history: <<bucket, key>> -> the multipart upload's life cycle
    kept        \* history: the buckets created and not asked to be deleted since

vars == <<h, buckets, objects, uploads, issued, mp, kept>>

(***************************************************************************)
(* Values                                                                  *)
(***************************************************************************)
None == "None"

Tasks == {"t1", "t2"}

Buckets == {"public", "priv"}
Keys == {"k1", "k2"}
KeyIds == {"valid_access", "valid_no_access", "invalid", "stranger"}

\* highest part number a request of the model carries
MaxPartNumber == 2

\* the most bytes InMemoryReadStream.read returns at once (32 * 1024 in the
\* backend, scaled to the objects of the model)
ReadSize == 1

(***************************************************************************)
(* Requests.  path is <<bucket, key>> (None where the URL has no such      *)
(* segment); raw_query is the query string cut at "&", each item cut at    *)
(* "=" (an item's length is the number of pieces str.split("=") returns);  *)
(* a query value is [text |-> s], [num |-> n] (the decimal string of n) or *)
(* an upload id.                                                           *)
(***************************************************************************)
Text(s) == [text |-> s]
Num(n) == [num |-> n]

EmptyQuery == << <<"">> >>

NoAuthorization ==
    [present |-> FALSE, scheme |-> "", bare |-> FALSE, fields |-> {},
     credential |-> <<>>, signed_headers |-> <<>>, signature |-> <<>>, hex |-> TRUE]

\* the Range header: absent, or the half-open byte range (start, end)
NoRange == [present |-> FALSE, start |-> 0, end |-> 0]

NoRequest ==
    [method |-> "", path |-> <<None, None>>, raw_query |-> EmptyQuery,
     authorization |-> NoAuthorization, x_amz_date |-> None,
     x_amz_content_sha256 |-> None, range |-> NoRange]

get_first(request, name) ==
    CASE name = "authorization" ->
            IF request.authorization.present THEN "present" ELSE None
      [] name = "x-amz-date" -> request.x_amz_date
      [] name = "x-amz-content-sha256" -> request.x_amz_content_sha256
      [] OTHER -> None

(***************************************************************************)
(* SignatureV4                                                             *)
(***************************************************************************)
sha256(m) == <<"sha256", m>>

sign(key, msg) == <<"hmac", key, msg>>

AUTH_DICT_KEYS == {"Credential", "SignedHeaders", "Signature"}

NoState ==
    [none |-> TRUE, key_id |-> None, signature |-> <<>>, datestamp |-> None,
     region |-> None, signed_headers |-> <<>>, amzdate |-> None]

\* SignatureV4.parse: [raise |-> exception or "", state |-> context or NoState]
parse_NoSchemeCheck(request) ==
    LET a == request.authorization IN
    IF ~a.present THEN [raise |-> "", state |-> NoState]
    ELSE IF a.bare THEN [raise |-> "ValueError", state |-> NoState]
    ELSE IF AUTH_DICT_KEYS \cap a.fields # AUTH_DICT_KEYS
         THEN [raise |-> "", state |-> NoState]
    ELSE IF Len(a.credential) < 3 THEN [raise |-> "", state |-> NoState]
    ELSE IF ~a.hex THEN [raise |-> "ValueError", state |-> NoState]
    ELSE [raise |-> "",
          state |-> [none |-> FALSE, key_id |-> a.credential[1],
                     signature |-> a.signature, datestamp |-> a.credential[2],
                     region |-> a.credential[3],
                     signed_headers |-> a.signed_headers,
                     amzdate |-> get_first(request, "x-amz-date")]]

parse(request) ==
    LET a == request.authorization IN
    IF ~a.present THEN [raise |-> "", state |-> NoState]
    ELSE IF a.scheme # "AWS4-HMAC-SHA256" THEN [raise |-> "", state |-> NoState]
    ELSE IF a.bare THEN [raise |-> "ValueError", state |-> NoState]
    ELSE IF AUTH_DICT_KEYS \cap a.fields # AUTH_DICT_KEYS
         THEN [raise |-> "", state |-> NoState]
    ELSE IF Len(a.credential) < 3 THEN [raise |-> "", state |-> NoState]
    ELSE IF ~a.hex THEN [raise |-> "ValueError", state |-> NoState]
    ELSE [raise |-> "",
          state |-> [none |-> FALSE, key_id |-> a.credential[1],
                     signature |-> a.signature, datestamp |-> a.credential[2],
                     region |-> a.credential[3],
                     signed_headers |-> a.signed_headers,
                     amzdate |-> get_first(request, "x-amz-date")]]

canonical_request_NoQuery(request, signed_headers) ==
    <<request.method, request.path,
      [i \in DOMAIN signed_headers |->
            <<signed_headers[i], get_first(request, signed_headers[i])>>],
      "", signed_headers, get_first(request, "x-amz-content-sha256")>>

canonical_request(request, signed_headers) ==
    <<request.method, request.path, request.raw_query,
      [i \in DOMAIN signed_headers |->
            <<signed_headers[i], get_first(request, signed_headers[i])>>],
      "", signed_headers, get_first(request, "x-amz-content-sha256")>>

to_sign(amzdate, datestamp, region, canonical) ==
    <<"AWS4-HMAC-SHA256", amzdate, <<datestamp, region, "s3", "aws4_request">>,
      sha256(canonical)>>

signature_of(secret, datestamp, region, msg) ==
    sign(sign(sign(sign(sign(<<"AWS", secret>>, datestamp), region), "s3"),
              "aws4_request"), msg)

\* SignatureV4.verify: [raise |-> exception or "", ok |-> the boolean returned]
verify(state, request, access_key) ==
    IF state.none THEN [raise |-> "AttributeError", ok |-> FALSE]
    ELSE IF \/ \E i \in DOMAIN state.signed_headers :
                    get_first(request, state.signed_headers[i]) = None
            \/ get_first(request, "x-amz-content-sha256") = None
            \/ state.amzdate = None
         THEN [raise |-> "TypeError", ok |-> FALSE]
    ELSE IF access_key = None THEN [raise |-> "AttributeError", ok |-> FALSE]
    ELSE [raise |-> "",
          ok |-> state.signature =
                    signature_of(access_key, state.datestamp, state.region,
                        to_sign(state.amzdate, state.datestamp, state.region,
                            canonical_request(request, state.signed_headers)))]

(***************************************************************************)
(* JWTMpNoTs: the upload-id codec.  An upload id carries its payload and   *)
(* an HMAC tag over it.                                                    *)
(***************************************************************************)
Invalid == [bucket |-> None, object |-> None, key_id |-> None, invalid |-> TRUE]

Payload(bucket, object, key_id) ==
    [bucket |-> bucket, object |-> object, key_id |-> key_id, invalid |-> FALSE]

JWTMpNoTs_encode(payload, secret) ==
    [payload |-> payload, tag |-> sign(secret, payload)]

JWTMpNoTs_decode(token, secret) ==
    IF /\ DOMAIN token = {"payload", "tag"}
       /\ token.tag = sign(secret, token.payload)
       /\ ~token.payload.invalid
    THEN token.payload
    ELSE Invalid

\* the key server.py passes to encode and decode
UploadSecret == "123456"

(***************************************************************************)
(* The query dictionary of _write_object and _create_multipart:            *)
(* {k: v for k, v in [kv.split("=") for kv in raw_query.split("&")]}       *)
(***************************************************************************)
QueryOK(raw) == \A i \in DOMAIN raw : Len(raw[i]) = 2

QueryHas(raw, k) == \E i \in DOMAIN raw : raw[i][1] = k

QueryGet(raw, k) ==
    LET last == CHOOSE i \in DOMAIN raw :
                    /\ raw[i][1] = k
                    /\ \A j \in DOMAIN raw : raw[j][1] = k => j <= i
    IN raw[last][2]

isdigit(v) == DOMAIN v = {"num"}

int(v) == v.num

(***************************************************************************)
(* InMemoryInterface                                                       *)
(***************************************************************************)
NoTarget == [kind |-> "none", bucket |-> None, key |-> None]
BucketTarget(b) == [kind |-> "bucket", bucket |-> b, key |-> None]
ObjectTarget(b, k) == [kind |-> "object", bucket |-> b, key |-> k]

\* access_key: [raise |-> exception or "", value |-> the secret or None]
access_key(key_id, target) ==
    IF key_id = "valid_access" THEN [raise |-> "", value |-> "access_key"]
    ELSE IF key_id = "valid_no_access" THEN [raise |-> "AccessDenied", value |-> None]
    ELSE IF key_id = "invalid" THEN [raise |-> "InvalidAccessKeyId", value |-> None]
    ELSE IF target.bucket = None THEN [raise |-> "AccessDenied", value |-> None]
    ELSE IF target.bucket = "public" THEN [raise |-> "", value |-> None]
    ELSE [raise |-> "AccessDenied", value |-> None]

\* a BytesIO, or the absence of the dictionary entry
NoFile == [exists |-> FALSE, data |-> <<>>]
File(data) == [exists |-> TRUE, data |-> data]

\* InMemoryWriteStream.write(content), content not None: the file afterwards
InMemoryWriteStream_write_Overwrite(data, content) == content

InMemoryWriteStream_write(data, content) == data \o content

\* InMemoryReadStream(file, start_pos, to_read), read until it returns None:
\* the chunks it returns
RECURSIVE InMemoryReadStream_read(_, _, _)
InMemoryReadStream_read(data, pos, to_read) ==
    LET want == IF to_read < ReadSize THEN to_read ELSE ReadSize
        upto == IF pos + want < Len(data) THEN pos + want ELSE Len(data)
        chunk == SubSeq(data, pos + 1, upto)
    IN  IF chunk = <<>> THEN <<>>
        ELSE <<chunk>> \o InMemoryReadStream_read(data, pos + Len(chunk),
                                                  to_read - Len(chunk))

\* InMemoryInterface.read_object(object_, content_range), the file being
\* there: the chunks of the stream it returns
InMemoryInterface_read_object(file, content_range) ==
    IF content_range.present
    THEN InMemoryReadStream_read(file.data, content_range.start,
                                 content_range.end - content_range.start)
    ELSE InMemoryReadStream_read(file.data, 0, Len(file.data))

\* a SparseList, or the absence of the dictionary entry; a slot is a file
\* or None
NoList == [exists |-> FALSE, list |-> <<>>]
NoPart == [set |-> FALSE, data |-> <<>>]
Part(data) == [set |-> TRUE, data |-> data]

\* SparseList.__setitem__(index, value), index >= -1:
\* [raise |-> exception or "", list |-> the list afterwards]
SparseList_setitem_KeepExisting(list, index, value) ==
    IF index >= 0 /\ index < Len(list) /\ list[index + 1].set
    THEN [raise |-> "", list |-> list]
    ELSE [raise |-> "",
          list |-> [i \in 1..(IF index + 1 > Len(list) THEN index + 1 ELSE Len(list)) |->
                        IF i = index + 1 THEN value
                        ELSE IF i <= Len(list) THEN list[i] ELSE NoPart]]

SparseList_setitem(list, index, value) ==
    LET missing == index - Len(list) + 1
        extended == IF missing > 0
                    THEN list \o [i \in 1..missing |-> NoPart]
                    ELSE list
    IN  IF index >= 0
        THEN [raise |-> "", list |-> [extended EXCEPT ![index + 1] = value]]
        ELSE IF Len(extended) + index >= 0
        THEN [raise |-> "",
              list |-> [extended EXCEPT ![Len(extended) + index + 1] = value]]
        ELSE [raise |-> "IndexError", list |-> list]

\* finish_multipart_upload's loop: the parts written before the first None
RECURSIVE PartsUntilNone_Reversed(_)
PartsUntilNone_Reversed(list) ==
    IF list = <<>> \/ ~Head(list).set THEN <<>>
    ELSE PartsUntilNone_Reversed(Tail(list)) \o Head(list).data

RECURSIVE PartsUntilNone(_)
PartsUntilNone(list) ==
    IF list = <<>> \/ ~Head(list).set THEN <<>>
    ELSE Head(list).data \o PartsUntilNone(Tail(list))

AllSet(list) == \A i \in DOMAIN list : list[i].set

(***************************************************************************)
(* The clients of the model: what a request may carry                      *)
(***************************************************************************)
AmzDate == "20240101T000000Z"
DateStamp == "20240101"
Region == "us-east-1"
ContentSha == "UNSIGNED-PAYLOAD"
SignedHeaders == <<"x-amz-content-sha256", "x-amz-date">>

\* a request without its Authorization header
Unsigned(method, bucket, key, raw_query) ==
    [method |-> method, path |-> <<bucket, key>>, raw_query |-> raw_query,
     authorization |-> NoAuthorization, x_amz_date |-> AmzDate,
     x_amz_content_sha256 |-> ContentSha, range |-> NoRange]

\* r with a Range header
WithRange(r, start, end) ==
    [r EXCEPT !.range = [present |-> TRUE, start |-> start, end |-> end]]

\* the Authorization header a SigV4 client holding secret computes for r
Authorization(key_id, secret, r) ==
    [present |-> TRUE, scheme |-> "AWS4-HMAC-SHA256", bare |-> FALSE,
     fields |-> AUTH_DICT_KEYS,
     credential |-> <<key_id, DateStamp, Region, "s3", "aws4_request">>,
     signed_headers |-> SignedHeaders,
     signature |-> signature_of(secret, DateStamp, Region,
                        to_sign(AmzDate, DateStamp, Region,
                                canonical_request(r, SignedHeaders))),
     hex |-> TRUE]

\* the headers that SignatureV4.parse does not accept
Malformed(a) ==
    {[a EXCEPT !.scheme = "AWS4-HMAC-SHA1"],
     [a EXCEPT !.bare = TRUE],
     [a EXCEPT !.credential = <<a.credential[1], a.credential[2]>>],
     [a EXCEPT !.hex = FALSE]}
    \cup {[a EXCEPT !.fields = AUTH_DICT_KEYS \ {f}] : f \in AUTH_DICT_KEYS}

IsMalformed(a) ==
    /\ a.present
    /\ \/ a.scheme # "AWS4-HMAC-SHA256"
       \/ a.bare
       \/ a.fields # AUTH_DICT_KEYS
       \/ Len(a.credential) < 3
       \/ ~a.hex

ClientSecrets == {"access_key", "guess"}

Headers(r) ==
    {NoAuthorization}
    \cup {Authorization(k, sec, r) : k \in KeyIds, sec \in ClientSecrets}
    \cup Malformed(Authorization("valid_access", "access_key", r))

WithHeaders(rs) ==
    UNION {{[r EXCEPT !.authorization = a] : a \in Headers(r)} : r \in rs}

\* signed by the client of the test suite
Signed(rs) ==
    {[r EXCEPT !.authorization = Authorization("valid_access", "access_key", r)] :
        r \in rs}

UploadId(b, k, i, secret) == JWTMpNoTs_encode(Payload(b, k, i), secret)

\* an upload id with one field of its payload changed after the tag was made
Tampered(t) == [t EXCEPT !.payload.object = "k0"]

Chunk(c) == <<c>>

(***************************************************************************)
(* A handler task's local state                                            *)
(***************************************************************************)
\* a write stream holds its file: the one stored under the key, or (held)
\* a file the key no longer names, with the bytes it has; mark and behind
\* are history: how many bytes the file had when the key was given another
\* file, and whether the stream has written to it since while the other
\* file had bytes
NoStream ==
    [kind |-> "none", slot |-> 0, md5 |-> <<>>, layers |-> 0,
     held |-> FALSE, file |-> <<>>, mark |-> 0, behind |-> FALSE]

NoResponse ==
    [status |-> "none", error |-> "", etag |-> <<>>, body |-> <<>>,
     names |-> {}, upload_id |-> Text("")]

Idle ==
    [pc |-> "idle", req |-> NoRequest, handler |-> "", target |-> NoTarget,
     upload_info |-> Invalid, state |-> NoState, key_id |-> None,
     access_key |-> None, verified |-> "unset", called_as |-> "unset",
     stream |-> NoStream, body |-> <<>>, pos |-> 0,
     resp |-> NoResponse, log |-> <<>>]

\* an exception leaves the handler: the request ends with an error response
Raise(l, e) ==
    [l EXCEPT !.pc = "done", !.resp = [NoResponse EXCEPT !.status = "error", !.error = e]]

\* the handler returns its response
Return(l, resp) ==
    [l EXCEPT !.pc = "done", !.resp = [resp EXCEPT !.status = "ok"]]

Logged(l, e) == [l EXCEPT !.log = Append(@, e)]

bucket_name(l) == l.req.path[1]
object_name(l) == l.req.path[2]
PathOf(l) == <<bucket_name(l), object_name(l)>>

(***************************************************************************)
(* S3Server.__init__: the route table                                      *)
(***************************************************************************)
Route(r) ==
    CASE r.method = "GET" /\ r.path[1] = None -> "_list_buckets"
      [] r.method = "PUT" /\ r.path[1] # None /\ r.path[2] = None -> "_create_bucket"
      [] r.method = "GET" /\ r.path[1] # None /\ r.path[2] = None -> "_list_bucket"
      [] r.method = "GET" /\ r.path[2] # None -> "_read_object"
      [] r.method = "PUT" /\ r.path[2] # None -> "_write_object"
      [] r.method = "POST" /\ r.path[2] # None -> "_create_multipart"
      [] OTHER -> "not_found"

(***************************************************************************)
(* What a handler does before it calls _auth:                              *)
(* [raise |-> exception or "", target |-> what _auth is given,             *)
(*  upload_info |-> the decoded upload id or None]                         *)
(***************************************************************************)
Resolved(target, info) == [raise |-> "", target |-> target, upload_info |-> info]
Failed(e) == [raise |-> e, target |-> NoTarget, upload_info |-> Invalid]

\* _write_object, the asserts on the decoded upload id before _auth
path_matches_NoObjectCheck(upload_info, b, k) == upload_info.bucket = b

path_matches(upload_info, b, k) ==
    /\ upload_info.bucket = b
    /\ upload_info.object = k

\* _write_object, the assert after _auth
identity_matches_Skipped(upload_info, key_id) == TRUE

identity_matches(upload_info, key_id) == upload_info.key_id = key_id

\* _create_multipart, the three asserts of the complete branch
complete_matches_NoIdentityCheck(upload_info, b, k, key_id) ==
    /\ upload_info.bucket = b
    /\ upload_info.object = k

complete_matches(upload_info, b, k, key_id) ==
    /\ upload_info.bucket = b
    /\ upload_info.object = k
    /\ upload_info.key_id = key_id

write_object_before_auth(r) ==
    IF ~QueryOK(r.raw_query) THEN Failed("ValueError")
    ELSE IF ~QueryHas(r.raw_query, "uploadId")
    THEN Resolved(BucketTarget(r.path[1]), Invalid)
    ELSE IF ~(QueryHas(r.raw_query, "partNumber")
              /\ isdigit(QueryGet(r.raw_query, "partNumber")))
    THEN Failed("AssertionError")
    ELSE LET info == JWTMpNoTs_decode(QueryGet(r.raw_query, "uploadId"), UploadSecret)
         IN  IF info.invalid THEN Failed("TypeError")
             ELSE IF ~path_matches(info, r.path[1], r.path[2])
             THEN Failed("AssertionError")
             ELSE Resolved(BucketTarget(r.path[1]), info)

create_multipart_before_auth_NoAssert(r) ==
    IF ~QueryOK(r.raw_query) THEN Failed("ValueError")
    ELSE Resolved(BucketTarget(r.path[1]), Invalid)

create_multipart_before_auth(r) ==
    IF ~QueryOK(r.raw_query) THEN Failed("ValueError")
    ELSE IF ~QueryHas(r.raw_query, "uploads") /\ ~QueryHas(r.raw_query, "uploadId")
    THEN Failed("AssertionError")
    ELSE Resolved(BucketTarget(r.path[1]), Invalid)

before_auth(handler, r) ==
    CASE handler = "not_found" -> Failed("NotFound")
      [] handler = "_list_buckets" -> Resolved(NoTarget, Invalid)
      [] handler = "_create_bucket" -> Resolved(NoTarget, Invalid)
      [] handler = "_list_bucket" -> Resolved(BucketTarget(r.path[1]), Invalid)
      [] handler = "_read_object" ->
            Resolved(ObjectTarget(r.path[1], r.path[2]), Invalid)
      [] handler = "_write_object" -> write_object_before_auth(r)
      [] handler = "_create_multipart" -> create_multipart_before_auth(r)

(***************************************************************************)
(* S3Server._auth, one definition per call it makes                        *)
(***************************************************************************)
\* state = SignatureV4.parse(request); key_id = state.key_id or None
after_parse(l, p) ==
    IF p.raise # "" THEN Raise(l, p.raise)
    ELSE Logged([l EXCEPT !.pc = "auth_access_key", !.state = p.state,
                          !.key_id = p.state.key_id], "parse")

\* access_key = await self._interface.access_key(key_id, bucket_or_object)
after_access_key_Swallowed(l, a) ==
    Logged([l EXCEPT !.pc = "auth_verify", !.access_key = a.value], "access_key")

after_access_key(l, a) ==
    IF a.raise # "" THEN Logged(Raise(l, a.raise), "access_key")
    ELSE Logged([l EXCEPT !.pc = "auth_verify", !.access_key = a.value], "access_key")

\* state.verify(access_key); return key_id
after_verify(l, v) ==
    IF v.raise # "" THEN Logged(Raise(l, v.raise), "verify")
    ELSE Logged([l EXCEPT !.pc = "dispatch",
                          !.verified = IF v.ok THEN "true" ELSE "false"], "verify")

(***************************************************************************)
(* Initial state: no request in flight, InMemoryInterface.__init__          *)
(***************************************************************************)
Targets == Buckets \X Keys

NoPut == [done |-> FALSE, body |-> <<>>]

NoUpload == [phase |-> "Idle", sent |-> <<>>, last |-> 0, zero |-> FALSE,
             over |-> FALSE, final |-> <<>>, stored |-> FALSE, put |-> NoPut,
             torn |-> FALSE]

Init ==
    /\ h = [s \in Tasks |-> Idle]
    /\ buckets = {}
    /\ objects = [t \in Targets |-> NoFile]
    /\ uploads = [t \in Targets |-> NoList]
    /\ issued = {}
    /\ mp = [t \in Targets |-> NoUpload]
    /\ kept = {}

backend == <<buckets, objects, uploads>>

(***************************************************************************)
(* Actions                                                                 *)
(***************************************************************************)
\* DELETE /{bucket}, and a request that carries the signature of the client
\* the backend grants everything
IsDeleteBucket(r) == r.method = "DELETE" /\ r.path[1] # None /\ r.path[2] = None

ByOwner(r) == r.authorization = Authorization("valid_access", "access_key", r)

\* the Application routes a request to its handler, which runs up to its
\* call of _auth; a request no route matches is answered 404
Receive(s, r) ==
    /\ h[s].pc \in {"idle", "done"}
    /\ LET l == [Idle EXCEPT !.req = r, !.handler = Route(r)]
           p == before_auth(l.handler, r)
       IN  h' = [h EXCEPT ![s] =
                    IF p.raise # "" THEN Raise(l, p.raise)
                    ELSE Logged([l EXCEPT !.pc = "auth_parse", !.target = p.target,
                                          !.upload_info = p.upload_info], "resolve")]
    /\ kept' = IF IsDeleteBucket(r) /\ ByOwner(r) THEN kept \ {r.path[1]} ELSE kept
    /\ UNCHANGED <<backend, issued, mp>>

auth_parse(s) ==
    /\ h[s].pc = "auth_parse"
    /\ h' = [h EXCEPT ![s] = after_parse(@, parse(h[s].req))]
    /\ UNCHANGED <<backend, issued, mp, kept>>

auth_access_key(s) ==
    /\ h[s].pc = "auth_access_key"
    /\ h' = [h EXCEPT ![s] = after_access_key(@, access_key(h[s].key_id, h[s].target))]
    /\ UNCHANGED <<backend, issued, mp, kept>>

auth_verify(s) ==
    /\ h[s].pc = "auth_verify"
    /\ h' = [h EXCEPT ![s] =
                after_verify(@, verify(h[s].state, h[s].req, h[s].access_key))]
    /\ UNCHANGED <<backend, issued, mp, kept>>

(***************************************************************************)
(* ETagWriteStream: the digest decorator of a write sink                   *)
(***************************************************************************)
md5_update(d, content) == d \o content

hexdigest(d) == <<"md5", d>>

(***************************************************************************)
(* History of a multipart upload, kept for the properties: the content     *)
(* last sent under each part number since the upload was initiated (while  *)
(* every part number sent was at least 1; zero says one was not), the     *)
(* part number sent last, whether a part number was sent again with other  *)
(* content (over), and what their assembly in ascending part-number order  *)
(* is.  put is the body of the single-part write that succeeded last, if  *)
(* the object has not been replaced since; torn says that the object is   *)
(* what a single-part write left behind when its stream failed.            *)
(***************************************************************************)
RECURSIVE Content(_)
Content(body) == IF body = <<>> THEN <<>> ELSE Head(body) \o Content(Tail(body))

Sent(sent, n, data) ==
    [m \in DOMAIN sent \cup {n} |-> IF m = n THEN data ELSE sent[m]]

RECURSIVE Ascending(_, _, _)
Ascending(sent, n, max) ==
    IF n > max THEN <<>>
    ELSE (IF n \in DOMAIN sent THEN sent[n] ELSE <<>>) \o Ascending(sent, n + 1, max)

Assembly(sent) ==
    IF DOMAIN sent = {} THEN <<>>
    ELSE Ascending(sent, 0, CHOOSE m \in DOMAIN sent : \A k \in DOMAIN sent : k <= m)

(***************************************************************************)
(* The handlers after _auth has returned                                   *)
(***************************************************************************)
Dispatching(s, handler) == h[s].pc = "dispatch" /\ h[s].handler = handler

list_buckets(s) ==
    /\ Dispatching(s, "_list_buckets")
    /\ h' = [h EXCEPT ![s] =
                Logged(Return([@ EXCEPT !.called_as = h[s].key_id],
                              [NoResponse EXCEPT !.names = buckets]),
                       "list_buckets")]
    /\ UNCHANGED <<backend, issued, mp, kept>>

create_bucket(s) ==
    /\ Dispatching(s, "_create_bucket")
    /\ buckets' = buckets \cup {bucket_name(h[s])}
    /\ kept' = kept \cup {bucket_name(h[s])}
    /\ h' = [h EXCEPT ![s] =
                Logged(Return([@ EXCEPT !.called_as = h[s].key_id],
                              [NoResponse EXCEPT !.names = {bucket_name(h[s])}]),
                       "create_bucket")]
    /\ UNCHANGED <<objects, uploads, issued, mp>>

list_bucket(s) ==
    /\ Dispatching(s, "_list_bucket")
    /\ h' = [h EXCEPT ![s] =
                Logged(Return([@ EXCEPT !.called_as = h[s].key_id],
                              [NoResponse EXCEPT !.names =
                                  {k \in Keys : objects[bucket_name(h[s]), k].exists}]),
                       "list_bucket")]
    /\ UNCHANGED <<backend, issued, mp, kept>>

\* _read_object calls read_object(object_): the request's Range header is
\* not looked at and no content_range is passed
read_object(s) ==
    /\ Dispatching(s, "_read_object")
    /\ LET file == objects[bucket_name(h[s]), object_name(h[s])]
       IN  h' = [h EXCEPT ![s] =
                    Logged(IF file.exists
                           THEN Return(@, [NoResponse EXCEPT !.body =
                                    Content(InMemoryInterface_read_object(
                                                file, NoRange))])
                           ELSE Raise(@, "KeyError"),
                           "read_object")]
    /\ UNCHANGED <<backend, issued, mp, kept>>

\* stream if isinstance(stream, ETagWriteStream) else ETagWriteStream(stream);
\* layers counts the digest decorators around the backend's own sink
decorate_Always(stream) == [stream EXCEPT !.layers = @ + 1]

decorate(stream) ==
    IF stream.layers >= 1 THEN stream ELSE [stream EXCEPT !.layers = @ + 1]

\* _write_object from _auth's return to the sink being open; body is what
\* request.stream() is going to yield, chunk by chunk, and etag says that
\* the sink the backend returns is an ETagWriteStream already
\* self._objects[bucket][name] = BytesIO(): the tasks' local states after
\* task s has put a new file under the key t, where old is the file that was
\* there; a stream another task has open on the old file keeps it
Replaced_SameFile(hh, s, t, old) == hh

Replaced(hh, s, t, old) ==
    [u \in Tasks |->
        IF /\ u # s /\ hh[u].pc = "stream" /\ hh[u].stream.kind = "object"
           /\ PathOf(hh[u]) = t /\ ~hh[u].stream.held
        THEN [hh[u] EXCEPT !.stream.held = TRUE, !.stream.file = old.data,
                           !.stream.mark = Len(old.data)]
        ELSE hh[u]]

open_write(s, body, etag) ==
    /\ Dispatching(s, "_write_object")
    /\ LET l == h[s]
           t == <<bucket_name(l), object_name(l)>>
           n == int(QueryGet(l.req.raw_query, "partNumber"))
           put == SparseList_setitem(uploads[t].list, n - 1, Part(<<>>))
       IN  IF ~l.upload_info.invalid /\ ~identity_matches(l.upload_info, l.key_id)
           THEN /\ h' = [h EXCEPT ![s] = Raise(@, "AssertionError")]
                /\ UNCHANGED <<backend, mp>>
           ELSE IF l.upload_info.invalid
           THEN \* InMemoryInterface.write_object
                /\ objects' = [objects EXCEPT ![t] = File(<<>>)]
                /\ mp' = [mp EXCEPT ![t].stored = FALSE, ![t].final = <<>>, ![t].put = NoPut,
                                         ![t].torn = FALSE]
                /\ h' = [Replaced(h, s, t, objects[t]) EXCEPT ![s] =
                            Logged([@ EXCEPT !.pc = "stream", !.pos = 1, !.body = body,
                                             !.stream = decorate(
                                                [NoStream EXCEPT
                                                    !.kind = "object",
                                                    !.layers = IF etag THEN 1 ELSE 0])],
                                   "write_object")]
                /\ UNCHANGED <<buckets, uploads>>
           ELSE \* InMemoryInterface.write_object_multipart
                IF ~uploads[t].exists
                THEN /\ h' = [h EXCEPT ![s] =
                                Logged(Raise(@, "KeyError"), "write_object_multipart")]
                     /\ UNCHANGED <<backend, mp>>
                ELSE IF put.raise # ""
                THEN /\ h' = [h EXCEPT ![s] =
                                Logged(Raise(@, put.raise), "write_object_multipart")]
                     /\ UNCHANGED <<backend, mp>>
                ELSE /\ uploads' = [uploads EXCEPT ![t].list = put.list]
                     /\ mp' = [mp EXCEPT ![t].zero = @ \/ n = 0,
                                         ![t].last = IF mp[t].zero \/ n = 0 THEN 0 ELSE n,
                                         ![t].over = @ \/ (/\ n \in DOMAIN mp[t].sent
                                                           /\ mp[t].sent[n] # Content(body)),
                                         ![t].sent = IF mp[t].zero \/ n = 0 THEN <<>>
                                                     ELSE Sent(@, n, <<>>)]
                     /\ h' = [h EXCEPT ![s] =
                                Logged([@ EXCEPT !.pc = "stream", !.pos = 1, !.body = body,
                                           !.stream = decorate(
                                              [NoStream EXCEPT
                                               !.kind = "part",
                                               !.layers = IF etag THEN 1 ELSE 0,
                                               !.slot = IF n = 0 THEN Len(put.list)
                                                        ELSE n])],
                                       "write_object_multipart")]
                     /\ UNCHANGED <<buckets, objects>>
    /\ UNCHANGED <<issued, kept>>

\* one turn of "async for chunk in request.stream()": an empty chunk is
\* not pushed
after_chunk(l, chunk) ==
    IF chunk = <<>> THEN [l EXCEPT !.pos = @ + 1]
    ELSE Logged([l EXCEPT !.pos = @ + 1, !.stream.md5 = md5_update(@, chunk)], "push")

\* after the loop: stream.write(None), then the response with the ETag
finish_write_NoEof(l) ==
    Return(l, [NoResponse EXCEPT !.etag = hexdigest(l.stream.md5)])

finish_write(l) ==
    Return(Logged(l, "eof"), [NoResponse EXCEPT !.etag = hexdigest(l.stream.md5)])

write_chunk(s) ==
    /\ h[s].pc = "stream"
    /\ h[s].pos <= Len(h[s].body)
    /\ LET l == h[s]
           t == <<bucket_name(l), object_name(l)>>
           chunk == l.body[l.pos]
           n == int(QueryGet(l.req.raw_query, "partNumber"))
       IN  IF l.stream.kind = "object" /\ l.stream.held
           THEN /\ h' = [h EXCEPT ![s] =
                            [after_chunk(@, chunk) EXCEPT
                                !.stream.file = InMemoryWriteStream_write(@, chunk),
                                !.stream.behind = @ \/ (chunk # <<>> /\ objects[t].data # <<>>)]]
                /\ UNCHANGED <<backend, mp>>
           ELSE
           /\ h' = [h EXCEPT ![s] = after_chunk(@, chunk)]
           /\ IF l.stream.kind = "object"
              THEN /\ objects' = [objects EXCEPT ![t].data = InMemoryWriteStream_write(@, chunk)]
                   /\ UNCHANGED <<uploads, mp>>
              ELSE /\ uploads' = [uploads EXCEPT ![t].list[l.stream.slot].data =
                                                InMemoryWriteStream_write(@, chunk)]
                   /\ mp' = [mp EXCEPT ![t].sent = IF mp[t].zero THEN <<>>
                                                   ELSE Sent(@, n, @[n] \o chunk)]
                   /\ UNCHANGED objects
    /\ UNCHANGED <<buckets, issued, kept>>

\* request.stream() or stream.write raises (the client has gone, the
\* backend fails) while chunks are still to come: the exception leaves the
\* handler
after_stream_error_Finalized(l) ==
    Return(Logged(Logged(l, "abort"), "eof"),
           [NoResponse EXCEPT !.etag = hexdigest(l.stream.md5)])

after_stream_error(l) == Raise(Logged(l, "abort"), "StreamError")

stream_fails(s) ==
    /\ h[s].pc = "stream"
    /\ h[s].pos <= Len(h[s].body)
    /\ h' = [h EXCEPT ![s] = after_stream_error(@)]
    /\ mp' = IF h[s].stream.kind = "object"
             THEN [mp EXCEPT ![PathOf(h[s])].torn = TRUE]
             ELSE mp
    /\ UNCHANGED <<backend, issued, kept>>

\* the body is exhausted
write_eof(s) ==
    /\ h[s].pc = "stream"
    /\ h[s].pos > Len(h[s].body)
    /\ h' = [h EXCEPT ![s] = finish_write(@)]
    /\ mp' = IF h[s].stream.kind = "object"
             THEN [mp EXCEPT ![PathOf(h[s])].put =
                        [done |-> TRUE, body |-> Content(h[s].body)]]
             ELSE mp
    /\ UNCHANGED <<backend, issued, kept>>

\* _create_multipart, the "uploads" branch
issued_payload_NoIdentity(bucket, object, key_id) == Payload(bucket, object, None)

issued_payload(bucket, object, key_id) == Payload(bucket, object, key_id)

initiate(s) ==
    /\ Dispatching(s, "_create_multipart")
    /\ QueryHas(h[s].req.raw_query, "uploads")
    /\ LET l == h[s]
           t == <<bucket_name(l), object_name(l)>>
           upload_id == JWTMpNoTs_encode(
                            issued_payload(bucket_name(l), object_name(l), l.key_id),
                            UploadSecret)
       IN  /\ uploads' = [uploads EXCEPT ![t] = [exists |-> TRUE, list |-> <<>>]]
           /\ mp' = [mp EXCEPT ![t].phase = "Open", ![t].sent = <<>>, ![t].last = 0,
                                ![t].zero = FALSE, ![t].over = FALSE]
           /\ issued' = issued \cup
                    {[upload_id |-> upload_id, bucket |-> bucket_name(l),
                      object |-> object_name(l), key_id |-> l.key_id]}
           /\ h' = [h EXCEPT ![s] =
                        Logged(Return([@ EXCEPT !.called_as = l.key_id],
                                      [NoResponse EXCEPT !.upload_id = upload_id]),
                               "create_multipart_upload")]
    /\ UNCHANGED <<buckets, objects, kept>>

\* _create_multipart, the "uploadId" branch
complete(s) ==
    /\ Dispatching(s, "_create_multipart")
    /\ ~QueryHas(h[s].req.raw_query, "uploads")
    /\ QueryHas(h[s].req.raw_query, "uploadId")
    /\ LET l == h[s]
           t == <<bucket_name(l), object_name(l)>>
           info == JWTMpNoTs_decode(QueryGet(l.req.raw_query, "uploadId"), UploadSecret)
       IN  IF info.invalid
           THEN /\ h' = [h EXCEPT ![s] = Raise(@, "TypeError")]
                /\ UNCHANGED <<backend, mp>>
           ELSE IF ~complete_matches(info, bucket_name(l), object_name(l), l.key_id)
           THEN /\ h' = [h EXCEPT ![s] = Raise(@, "AssertionError")]
                /\ UNCHANGED <<backend, mp>>
           ELSE \* InMemoryInterface.finish_multipart_upload
                IF ~uploads[t].exists
                THEN /\ objects' = [objects EXCEPT ![t] = File(<<>>)]
                     /\ mp' = [mp EXCEPT ![t].stored = FALSE, ![t].final = <<>>, ![t].put = NoPut,
                                         ![t].torn = FALSE]
                     /\ h' = [Replaced(h, s, t, objects[t]) EXCEPT ![s] =
                                Logged(Raise([@ EXCEPT !.upload_info = info], "KeyError"),
                                       "finish_multipart_upload")]
                     /\ UNCHANGED <<buckets, uploads>>
                ELSE IF ~AllSet(uploads[t].list)
                THEN /\ objects' = [objects EXCEPT ![t] =
                                        File(PartsUntilNone(uploads[t].list))]
                     /\ mp' = [mp EXCEPT ![t].stored = FALSE, ![t].final = <<>>, ![t].put = NoPut,
                                         ![t].torn = FALSE]
                     /\ h' = [Replaced(h, s, t, objects[t]) EXCEPT ![s] =
                                Logged(Raise([@ EXCEPT !.upload_info = info],
                                             "AttributeError"),
                                       "finish_multipart_upload")]
                     /\ UNCHANGED <<buckets, uploads>>
                ELSE /\ objects' = [objects EXCEPT ![t] =
                                        File(PartsUntilNone(uploads[t].list))]
                     /\ mp' = [mp EXCEPT ![t].phase = "Completed",
                                         ![t].final = IF mp[t].zero THEN <<>>
                                                      ELSE Assembly(mp[t].sent),
                                         ![t].stored = ~mp[t].zero,
                                         ![t].put = NoPut, ![t].torn = FALSE]
                     /\ h' = [Replaced(h, s, t, objects[t]) EXCEPT ![s] =
                                Logged(Return([@ EXCEPT !.upload_info = info], NoResponse),
                                       "finish_multipart_upload")]
                     /\ UNCHANGED <<buckets, uploads>>
    /\ UNCHANGED <<issued, kept>>

\* the steps of the handlers of objects
ObjectStep(s, bodies, sinks) ==
    \/ auth_parse(s)
    \/ auth_access_key(s)
    \/ auth_verify(s)
    \/ read_object(s)
    \/ \E body \in bodies, etag \in sinks : open_write(s, body, etag)
    \/ write_chunk(s)
    \/ write_eof(s)
    \/ initiate(s)
    \/ complete(s)

Step(s, bodies) ==
    \/ ObjectStep(s, bodies, {FALSE})
    \/ list_buckets(s)
    \/ create_bucket(s)
    \/ list_bucket(s)

(***************************************************************************)
(* The requests of the model                                               *)
(***************************************************************************)
PlainQuery == << <<"x-id", Text("PutObject")>> >>
UploadsQuery == << <<"uploads", Text("")>> >>
PartQuery(n, t) == << <<"partNumber", n>>, <<"uploadId", t>> >>
CompleteQuery(t) == << <<"uploadId", t>> >>

OwnUploadId(b, k) == UploadId(b, k, "valid_access", UploadSecret)

\* every route on bucket b
Routed(b) ==
    {Unsigned("GET", None, None, EmptyQuery),
     Unsigned("PUT", b, None, EmptyQuery),
     Unsigned("GET", b, None, EmptyQuery),
     Unsigned("GET", b, "k1", EmptyQuery),
     Unsigned("PUT", b, "k1", PlainQuery),
     Unsigned("PUT", b, "k1", PartQuery(Num(1), OwnUploadId(b, "k1"))),
     Unsigned("POST", b, "k1", UploadsQuery),
     Unsigned("POST", b, "k1", CompleteQuery(OwnUploadId(b, "k1")))}

\* the callers that have no secret of their own: no header, a header parse
\* rejects, or a key id the backend does not know
Unauthenticated(r) ==
    {NoAuthorization, Authorization("stranger", "guess", r)}
    \cup Malformed(Authorization("valid_access", "access_key", r))

\* Specification Spec: every route with every Authorization header on the
\* private bucket, its owner asking for the bucket to be deleted, and the
\* callers without a secret on the public one
Requests ==
    WithHeaders(Routed("priv"))
    \cup Signed({Unsigned("DELETE", "priv", None, EmptyQuery)})
    \cup UNION {{[r EXCEPT !.authorization = a] : a \in Unauthenticated(r)} :
                    r \in Routed("public")}

Next ==
    \E s \in {"t1"} :
        \/ \E r \in Requests : Receive(s, r)
        \/ Step(s, {<<Chunk("A")>>})

Spec == Init /\ [][Next]_vars

\* the upload ids that must not be accepted on the path /b/k by valid_access
ForeignUploadIds(b, k) ==
    {UploadId("public", k, "valid_access", UploadSecret),
     UploadId(b, "k2", "valid_access", UploadSecret),
     UploadId(b, k, "stranger", UploadSecret),
     UploadId(b, k, "valid_access", "guess"),
     Tampered(OwnUploadId(b, k)),
     Text("garbage")}

PartNumbers == {Num(n) : n \in 0..MaxPartNumber} \cup {Text("x")}

\* Specification SpecMp: the signed client working on one object, with every
\* part number and every upload id
MpRequests ==
    Signed(
        {Unsigned("GET", "priv", "k1", EmptyQuery),
         Unsigned("PUT", "priv", "k1", PlainQuery),
         Unsigned("PUT", "priv", "k1", CompleteQuery(OwnUploadId("priv", "k1"))),
         Unsigned("POST", "priv", "k1", UploadsQuery),
         Unsigned("POST", "priv", "k1", PlainQuery),
         Unsigned("POST", "priv", "k1", EmptyQuery),
         Unsigned("PUT", "priv", "k1", EmptyQuery),
         Unsigned("POST", "priv", "k1", CompleteQuery(OwnUploadId("priv", "k1")))}
        \cup {Unsigned("PUT", "priv", "k1", PartQuery(n, OwnUploadId("priv", "k1"))) :
                n \in PartNumbers}
        \cup {Unsigned("PUT", "priv", "k1", PartQuery(Num(1), t)) :
                t \in ForeignUploadIds("priv", "k1")}
        \cup {Unsigned("POST", "priv", "k1", CompleteQuery(t)) :
                t \in ForeignUploadIds("priv", "k1")})

MpBodies == {<<Chunk("A")>>, <<Chunk("B"), <<>>, Chunk("C")>>}

NextMp ==
    \E s \in {"t1"} :
        \/ \E r \in MpRequests : Receive(s, r)
        \/ ObjectStep(s, MpBodies, {FALSE})

\* as in the test suite, the bucket has been created
InitMp ==
    /\ h = [s \in Tasks |-> Idle]
    /\ buckets = {"priv"}
    /\ objects = [t \in Targets |-> NoFile]
    /\ uploads = [t \in Targets |-> NoList]
    /\ issued = {}
    /\ mp = [t \in Targets |-> NoUpload]
    /\ kept = {"priv"}

SpecMp == InitMp /\ [][NextMp]_vars

\* Specification SpecStream: the signed client writing and reading one
\* object, single-part and as part 1 of a multipart upload, with streams
\* that may fail and backends whose sinks are digest-decorated or not
StreamRequests ==
    Signed(
        {Unsigned("GET", "priv", "k1", EmptyQuery),
         WithRange(Unsigned("GET", "priv", "k1", EmptyQuery), 1, 2),
         Unsigned("PUT", "priv", "k1", PlainQuery),
         Unsigned("POST", "priv", "k1", UploadsQuery),
         Unsigned("PUT", "priv", "k1", PartQuery(Num(1), OwnUploadId("priv", "k1"))),
         Unsigned("POST", "priv", "k1", CompleteQuery(OwnUploadId("priv", "k1")))})

NextStream ==
    \E s \in {"t1"} :
        \/ \E r \in StreamRequests : Receive(s, r)
        \/ ObjectStep(s, MpBodies, BOOLEAN)
        \/ stream_fails(s)

SpecStream == InitMp /\ [][NextStream]_vars

\* Specification SpecSig: one signature, made by a client from the inputs
\* it holds, presented on requests that have these inputs or differ from
\* them in one
SigInputs ==
    [secret |-> "access_key", method |-> "GET", path |-> <<"priv", "k1">>,
     raw_query |-> PlainQuery, x_amz_date |-> AmzDate, content_sha |-> ContentSha,
     datestamp |-> DateStamp, region |-> Region]

\* what a signer or a request may have in place of each input
SigOthers ==
    [secret |-> {"guess"}, method |-> {"PUT"},
     path |-> {<<"priv", "k2">>, <<"public", "k1">>},
     raw_query |-> {<< <<"x-id", Text("GetObject")>> >>},
     x_amz_date |-> {"20240101T000001Z"}, content_sha |-> {"e3b0c442"},
     datestamp |-> {"20240102"}, region |-> {"eu-west-1"}]

\* the inputs that differ from i in the one place f
Altered(i, f) == {[i EXCEPT ![f] = v] : v \in SigOthers[f]}

\* the request that has the inputs i, without its Authorization header
RequestOf(i) ==
    [Unsigned(i.method, i.path[1], i.path[2], i.raw_query) EXCEPT
        !.x_amz_date = i.x_amz_date, !.x_amz_content_sha256 = i.content_sha]

\* the signature the signing chain makes from the inputs i
SignatureFrom(i) ==
    signature_of(i.secret, i.datestamp, i.region,
                 to_sign(i.x_amz_date, i.datestamp, i.region,
                         canonical_request(RequestOf(i), SignedHeaders)))

\* the request with the inputs actual that carries the signature made from
\* the inputs signed
Carry(actual, signed) ==
    [RequestOf(actual) EXCEPT !.authorization =
        [present |-> TRUE, scheme |-> "AWS4-HMAC-SHA256", bare |-> FALSE,
         fields |-> AUTH_DICT_KEYS,
         credential |-> <<"valid_access", actual.datestamp, actual.region,
                          "s3", "aws4_request">>,
         signed_headers |-> SignedHeaders,
         signature |-> SignatureFrom(signed),
         hex |-> TRUE]]

\* the signer holds the backend's secret or another; the request is what was
\* signed or differs from it in one input
SignerInputs == {SigInputs} \cup Altered(SigInputs, "secret")

PresentedInputs ==
    {SigInputs} \cup UNION {Altered(SigInputs, f) : f \in DOMAIN SigInputs \ {"secret"}}

SigRequests == {Carry(actual, signed) : actual \in PresentedInputs, signed \in SignerInputs}

NextSig ==
    \E s \in {"t1"} :
        \/ \E r \in SigRequests : Receive(s, r)
        \/ auth_parse(s)
        \/ auth_access_key(s)
        \/ auth_verify(s)
        \/ read_object(s)
        \/ \E body \in MpBodies : open_write(s, body, FALSE)
        \/ write_chunk(s)
        \/ write_eof(s)

SpecSig == InitMp /\ [][NextSig]_vars

\* Specification SpecRace: two handler tasks, each with a single-part PUT
\* of the same object, their steps in any order
RaceRequests == Signed({Unsigned("PUT", "priv", "k1", PlainQuery)})

NextRace ==
    \E s \in Tasks :
        \/ \E r \in RaceRequests : Receive(s, r)
        \/ auth_parse(s)
        \/ auth_access_key(s)
        \/ auth_verify(s)
        \/ \E body \in MpBodies : open_write(s, body, FALSE)
        \/ write_chunk(s)
        \/ write_eof(s)

SpecRace == InitMp /\ [][NextRace]_vars

(***************************************************************************)
(* Properties                                                              *)
(***************************************************************************)
DataOperations ==
    {"list_buckets", "create_bucket", "list_bucket", "read_object", "write_object",
     "write_object_multipart", "create_multipart_upload", "finish_multipart_upload"}

Has(l, e) == \E i \in DOMAIN l.log : l.log[i] = e

Place(l, e) == CHOOSE i \in DOMAIN l.log : l.log[i] = e

Invoked(l) == \E i \in DOMAIN l.log : l.log[i] \in DataOperations

Succeeded(l) == l.pc = "done" /\ l.resp.status = "ok"

Rejected(l) == l.pc = "done" /\ l.resp.status = "error"

Private(r) == r.path[1] # "public"

\* C1: a request whose SigV4 verification returns false is rejected and no
\* backend data operation is invoked for it.
C1_VerificationGates ==
    \A s \in Tasks :
        h[s].verified = "false" => ~Invoked(h[s]) /\ ~Succeeded(h[s])

C3_AnonymousProceeds ==
    \A s \in Tasks :
        LET l == h[s] IN
        (/\ l.pc = "done"
         /\ ~l.req.authorization.present
         /\ Has(l, "access_key")
         /\ access_key(None, l.target).raise = "")
            => Invoked(l) /\ l.called_as \in {"unset", None}

\* C4: a request whose Authorization header is missing or malformed and
\* whose target is private never reaches a data operation and never gets a
\* success response.
C4_MalformedDenied ==
    \A s \in Tasks :
        LET l == h[s] IN
        (/\ l.pc # "idle"
         /\ ~l.req.authorization.present \/ IsMalformed(l.req.authorization)
         /\ Private(l.req))
            => ~Invoked(l) /\ ~Succeeded(l)

C4_Witness ==
    \E s \in Tasks :
        /\ Rejected(h[s])
        /\ IsMalformed(h[s].req.authorization)
        /\ Private(h[s].req)
        /\ h[s].resp.error = "AccessDenied"

\* C5: a request's steps come in the order target resolved, signature
\* verifier, access-control gate, backend operation, each one only after
\* the ones before it have succeeded.
C5_StepOrder ==
    \A s \in Tasks :
        LET l == h[s] IN
        /\ l.log # <<>> => l.log[1] = "resolve"
        /\ Has(l, "access_key")
            => Has(l, "verify") /\ Place(l, "verify") < Place(l, "access_key")
               /\ l.verified = "true"
        /\ Invoked(l)
            => /\ Has(l, "access_key")
               /\ access_key(l.key_id, l.target).raise = ""
               /\ l.log[Len(l.log)] \in DataOperations
               /\ Place(l, "access_key") < Len(l.log)


\* the upload id a request carries, decoded with the router's key
Redeemed(l) == JWTMpNoTs_decode(QueryGet(l.req.raw_query, "uploadId"), UploadSecret)

\* PUT with uploadId: an upload-part request
IsPartRequest(l) ==
    /\ l.handler = "_write_object"
    /\ QueryOK(l.req.raw_query)
    /\ QueryHas(l.req.raw_query, "uploadId")

\* POST with uploadId and no uploads: a complete request
IsCompleteRequest(l) ==
    /\ l.handler = "_create_multipart"
    /\ QueryOK(l.req.raw_query)
    /\ QueryHas(l.req.raw_query, "uploadId")
    /\ ~QueryHas(l.req.raw_query, "uploads")

\* the upload id does not redeem, or one of its three fields differs from
\* the path's bucket, the path's key, the identity the request presents
Mismatched(l) ==
    \/ Redeemed(l).invalid
    \/ Redeemed(l).bucket # bucket_name(l)
    \/ Redeemed(l).object # object_name(l)
    \/ Redeemed(l).key_id # parse(l.req).state.key_id

\* C6: an upload-part request reaches write_object_multipart only with an
\* upload id that redeems to the path's bucket, the path's key and the
\* request's identity; with any other upload id it is rejected, no data
\* operation is invoked, and no step of it changes a stored part or object.
C6_PartNeedsUploadId ==
    /\ [](\A s \in Tasks :
            /\ Has(h[s], "write_object_multipart")
                => IsPartRequest(h[s]) /\ ~Mismatched(h[s])
                   /\ h[s].key_id = Redeemed(h[s]).key_id
            /\ IsPartRequest(h[s]) /\ Mismatched(h[s])
                => ~Invoked(h[s]) /\ ~Succeeded(h[s]))
    /\ [][\A s \in Tasks :
            h'[s] # h[s] /\ IsPartRequest(h'[s]) /\ Mismatched(h'[s])
                => UNCHANGED <<uploads, objects>>]_vars

C6_Witness ==
    \E s \in Tasks :
        /\ Succeeded(h[s])
        /\ Has(h[s], "write_object_multipart")
        /\ uploads[PathOf(h[s])].list # <<>>

\* C7: a complete request reaches finish_multipart_upload only with an
\* upload id that redeems to the path's bucket, the path's key and the
\* request's identity; with any other it is rejected and the stored object
\* stays as it was.
C7_CompleteNeedsUploadId ==
    /\ [](\A s \in Tasks :
            /\ Has(h[s], "finish_multipart_upload")
                => IsCompleteRequest(h[s]) /\ ~Mismatched(h[s])
                   /\ h[s].key_id = Redeemed(h[s]).key_id
            /\ IsCompleteRequest(h[s]) /\ Mismatched(h[s])
                => ~Invoked(h[s]) /\ ~Succeeded(h[s]))
    /\ [][\A s \in Tasks :
            h'[s] # h[s] /\ IsCompleteRequest(h'[s]) /\ Mismatched(h'[s])
                => UNCHANGED <<uploads, objects>>]_vars

C7_Witness ==
    \E s \in Tasks :
        /\ Rejected(h[s])
        /\ IsCompleteRequest(h[s])
        /\ ~Redeemed(h[s]).invalid
        /\ Redeemed(h[s]).key_id # h[s].key_id
        /\ Has(h[s], "verify")
        /\ objects[PathOf(h[s])].exists
        /\ objects[PathOf(h[s])].data # <<>>

\* C8: an upload id issued for (bucket, key, identity) redeems under the
\* router's key to exactly these three, and under another key, or altered,
\* to nothing; a later upload-part or complete request of that identity on
\* that path that carries it gets to its backend operation.
IssuedFor(l) ==
    \E e \in issued :
        /\ e.upload_id = QueryGet(l.req.raw_query, "uploadId")
        /\ e.bucket = bucket_name(l)
        /\ e.object = object_name(l)
        /\ e.key_id = parse(l.req).state.key_id

IsNumberedPart(l) ==
    /\ IsPartRequest(l) /\ IssuedFor(l)
    /\ QueryHas(l.req.raw_query, "partNumber")
    /\ isdigit(QueryGet(l.req.raw_query, "partNumber"))
    /\ int(QueryGet(l.req.raw_query, "partNumber")) >= 1

IsNeitherRequest(l) ==
    /\ l.handler = "_create_multipart"
    /\ ~QueryHas(l.req.raw_query, "uploads")
    /\ ~QueryHas(l.req.raw_query, "uploadId")

\* C12: a POST /{bucket}/{key} whose query has neither uploads nor uploadId
\* is rejected; no backend operation is invoked for it and the step that
\* takes it changes nothing the backend stores.
C12_NeitherRejected ==
    /\ [](\A s \in Tasks :
            IsNeitherRequest(h[s]) => Rejected(h[s]) /\ ~Invoked(h[s]))
    /\ [][\A s \in Tasks :
            h'[s] # h[s] /\ IsNeitherRequest(h'[s]) => UNCHANGED backend]_vars

C12_Witness ==
    \E s \in Tasks :
        /\ IsNeitherRequest(h[s])
        /\ h[s].req.raw_query = PlainQuery
        /\ Rejected(h[s])
        /\ h[s].resp.error = "AssertionError"
        /\ uploads[PathOf(h[s])].exists


\* C13: a PUT /{bucket}/{key} goes to write_object only without uploadId in
\* its query and to write_object_multipart only with it, never to both; a
\* well-formed one that has run to its end (no uploadId, the empty query
\* string included, or an issued upload id with a part number from 1 up)
\* has gone to one of the two.
C13_PutDispatch ==
    \A s \in Tasks :
        LET l == h[s] IN
        l.handler = "_write_object" =>
            /\ Has(l, "write_object") => ~QueryHas(l.req.raw_query, "uploadId")
            /\ Has(l, "write_object_multipart") => QueryHas(l.req.raw_query, "uploadId")
            /\ ~(Has(l, "write_object") /\ Has(l, "write_object_multipart"))
            /\ (/\ l.pc = "done"
                /\ ~QueryHas(l.req.raw_query, "uploadId") \/ IsNumberedPart(l))
                    => Has(l, "write_object") \/ Has(l, "write_object_multipart")


\* what the router has sent to the sink, in order
SinkEvents(l) == SelectSeq(l.log, LAMBDA e : e \in {"push", "eof"})

\* the chunks of the body that are not empty
Pushed(body) == SelectSeq(body, LAMBDA c : c # <<>>)

Written(l) ==
    IF l.stream.kind = "object" THEN objects[PathOf(l)].data
    ELSE uploads[PathOf(l)].list[l.stream.slot].data

Slice(data, start, end) ==
    SubSeq(data, start + 1, IF end < Len(data) THEN end ELSE Len(data))

\* C19: a read that carries a byte range returns the bytes of the stored
\* object in that range and no others.
C19_RangeRead ==
    \A s \in Tasks :
        LET l == h[s] IN
        (l.handler = "_read_object" /\ Succeeded(l) /\ l.req.range.present)
            => l.resp.body = Slice(objects[PathOf(l)].data,
                                   l.req.range.start, l.req.range.end)


\* C20: list buckets, asked by the owner, returns the buckets that were
\* created and that no delete-bucket request of the owner has named since.
C20_ListAfterDelete ==
    \A s \in Tasks :
        (/\ h[s].handler = "_list_buckets" /\ Succeeded(h[s])
         /\ ByOwner(h[s].req))
            => h[s].resp.names = kept


\* C21: verify returns true for the signature the signing chain makes from
\* the secret the backend holds and the request's own method, path, query,
\* signed header values, timestamp, date-stamp, region and content hash,
\* and false for a signature made from inputs that differ in any one of
\* these or in the secret.
C21_AcceptsOnlySameInputs ==
    \A s \in Tasks :
        \A actual \in PresentedInputs, signed \in SignerInputs :
            (h[s].req = Carry(actual, signed) /\ Has(h[s], "verify"))
                => /\ h[s].verified \in {"true", "false"}
                   /\ h[s].verified = "true" <=> signed = actual

\* a signature made from the backend's secret and another query string has
\* been verified
C21_Witness ==
    \E s \in Tasks :
        \E actual \in Altered(SigInputs, "raw_query") :
            /\ h[s].req = Carry(actual, SigInputs)
            /\ Has(h[s], "verify")
            /\ h[s].verified = "false"


\* an upload-part request whose part number is absent, not a number, or 0
IsUnnumberedPart(l) ==
    /\ IsPartRequest(l)
    /\ \/ ~QueryHas(l.req.raw_query, "partNumber")
       \/ ~isdigit(QueryGet(l.req.raw_query, "partNumber"))
       \/ int(QueryGet(l.req.raw_query, "partNumber")) < 1

\* C22: write_object_multipart is invoked only for an upload-part request
\* whose part number is a positive integer; a request whose partNumber is
\* absent, not a number or 0 is rejected without the operation being invoked,
\* and no step of it changes a stored part.
C22_PartNumberFromOne ==
    /\ [](\A s \in Tasks :
            IsUnnumberedPart(h[s]) =>
                /\ ~Has(h[s], "write_object_multipart")
                /\ h[s].pc = "done" => Rejected(h[s]))
    /\ [][\A s \in Tasks :
            h'[s] # h[s] /\ IsUnnumberedPart(h'[s]) => uploads' = uploads]_vars


\* a single-part PUT that has run to its end
IsFinishedPut(l) ==
    /\ l.handler = "_write_object" /\ l.upload_info.invalid
    /\ Succeeded(l)

====
